---- MODULE Spec2Model ----
(***************************************************************************)
(* Prefix-command dispatch of poise: prefix stripping (strip_prefix),      *)
(* command lookup (find_command) and the backtracking argument parser      *)
(* (parse_prefix_args! / _parse_prefix!).                                  *)
(*                                                                         *)
(* Text is a sequence of one-character strings; " " is the only            *)
(* whitespace character of the alphabets used.                             *)
(***************************************************************************)
EXTENDS Integers, Sequences, FiniteSets, TLC

VARIABLES
    pc,                 \* "call" before the operation has run, "done" after
    commands,           \* find_command: the command list searched
    remaining_message,  \* find_command: the invocation without its prefix
    case_insensitive,   \* find_command: the comparison flag
    found,              \* find_command: the returned Option
    options,            \* strip_prefix: framework.options.prefix_options and callback results
    content,            \* strip_prefix: msg.content
    stripped,           \* strip_prefix: the returned Option
    slots,              \* parse_prefix_args!: the parameter list of the invocation
    args,               \* parse_prefix_args!: the argument text
    parsed,             \* parse_prefix_args!: the returned Result and the trials made
    message,            \* dispatch_message: `msg` (its content is `content`)
    triggered_by_edit,  \* dispatch_message: the parameter
    previously_tracked, \* dispatch_message: the parameter
    ctx,                \* dispatch_message: the PrefixContext built, and `args`
    calls,              \* dispatch_message: the user code invoked so far, in order
    res,                \* dispatch_message: the local `res`
    result              \* dispatch_message: the returned Result

vars == <<pc, commands, remaining_message, case_insensitive, found,
          options, content, stripped, slots, args, parsed,
          message, triggered_by_edit, previously_tracked, ctx, calls, res, result>>

---------------------------------------------------------------------------
(* Bounds of the explored inputs *)

MaxMessageLen == 6      \* longest remaining_message given to find_command
MaxContentLen == 5      \* longest msg.content given to strip_prefix
MaxArgsLen == 5         \* longest argument text given to parse_prefix_args!
MaxMentionLen == 6      \* longest msg.content given to strip_prefix when only mentions are prefixes
MaxDispatchLen == 5     \* longest msg.content given to dispatch_message

---------------------------------------------------------------------------
(* Text primitives of the Rust standard library, as the code uses them *)

Idle == "idle"

NoneVal == [some |-> FALSE]

\* All texts over alphabet cs of length at most n
TextsUpTo(cs, n) == UNION {[1..k -> cs] : k \in 0..n}

SetMin(S) == CHOOSE m \in S : \A o \in S : m <= o

is_whitespace(c) == c = " "

\* str::trim_start
trim_start(s) ==
    LET keep == {i \in 1..Len(s) : ~is_whitespace(s[i])}
    IN IF keep = {} THEN <<>> ELSE SubSeq(s, SetMin(keep), Len(s))

\* str::splitn(2, char::is_whitespace): the part before the first whitespace
\* character, and the part after it (<<>> stands for a missing second part,
\* which the callers replace by "" anyway)
splitn2(s) ==
    LET ws == {i \in 1..Len(s) : is_whitespace(s[i])}
    IN IF ws = {} THEN <<s, <<>>>>
       ELSE <<SubSeq(s, 1, SetMin(ws) - 1), SubSeq(s, SetMin(ws) + 1, Len(s))>>

\* char::to_ascii_lowercase on the letters of the alphabets
to_ascii_lowercase(c) ==
    CASE c = "P" -> "p"
      [] c = "C" -> "c"
      [] c = "A" -> "a"
      [] OTHER -> c

\* str::eq_ignore_ascii_case
eq_ignore_ascii_case(a, b) ==
    /\ Len(a) = Len(b)
    /\ \A i \in 1..Len(a) : to_ascii_lowercase(a[i]) = to_ascii_lowercase(b[i])

\* str::starts_with
starts_with(s, p) == Len(p) <= Len(s) /\ SubSeq(s, 1, Len(p)) = p

---------------------------------------------------------------------------
(* find_command *)

Command(name, aliases, subcommands) ==
    [name |-> name, aliases |-> aliases, subcommands |-> subcommands]

\* the closure chosen by the case_insensitive flag
string_equal(ci, a, b) == IF ci THEN eq_ignore_ascii_case(a, b) ELSE a = b

\* primary_name_matches || alias_matches
command_matches(ci, command, command_name) ==
    \/ string_equal(ci, command.name, command_name)
    \/ \E k \in 1..Len(command.aliases) : string_equal(ci, command.aliases[k], command_name)

RECURSIVE find_command(_, _, _)

\* A faulty variant: the subcommand list is never searched
find_command_no_descent(cmds, msg, ci) ==
    LET command_name == splitn2(msg)[1]
        rest == trim_start(splitn2(msg)[2])
        hits == {i \in 1..Len(cmds) : command_matches(ci, cmds[i], command_name)}
    IN IF hits = {} THEN NoneVal
       ELSE [some |-> TRUE, command |-> <<SetMin(hits)>>,
             name |-> command_name, args |-> rest]

\* A faulty variant: the command's own name is returned instead of the typed token
find_command_canonical_name(cmds, msg, ci) ==
    LET command_name == splitn2(msg)[1]
        rest == trim_start(splitn2(msg)[2])
        hits == {i \in 1..Len(cmds) : command_matches(ci, cmds[i], command_name)}
    IN IF hits = {} THEN NoneVal
       ELSE LET i == SetMin(hits)
                sub == find_command(cmds[i].subcommands, rest, ci)
            IN IF sub.some THEN [sub EXCEPT !.command = <<i>> \o @]
               ELSE [some |-> TRUE, command |-> <<i>>,
                     name |-> cmds[i].name, args |-> rest]

\* A faulty variant: a miss in the subcommand list is propagated (`?` for unwrap_or)
find_command_propagate_miss(cmds, msg, ci) ==
    LET command_name == splitn2(msg)[1]
        rest == trim_start(splitn2(msg)[2])
        hits == {i \in 1..Len(cmds) : command_matches(ci, cmds[i], command_name)}
    IN IF hits = {} THEN NoneVal
       ELSE LET i == SetMin(hits)
                sub == find_command(cmds[i].subcommands, rest, ci)
            IN IF cmds[i].subcommands = <<>>
               THEN [some |-> TRUE, command |-> <<i>>, name |-> command_name, args |-> rest]
               ELSE IF sub.some THEN [sub EXCEPT !.command = <<i>> \o @] ELSE NoneVal

\* The returned command is identified by its position: <<i>> is commands[i],
\* <<i, j>> is commands[i].subcommands[j], and so on.
find_command(cmds, msg, ci) ==
    LET command_name == splitn2(msg)[1]
        rest == trim_start(splitn2(msg)[2])
        hits == {i \in 1..Len(cmds) : command_matches(ci, cmds[i], command_name)}
    IN IF hits = {} THEN NoneVal
       ELSE LET i == SetMin(hits)
                sub == find_command(cmds[i].subcommands, rest, ci)
            IN IF sub.some THEN [sub EXCEPT !.command = <<i>> \o @]
               ELSE [some |-> TRUE, command |-> <<i>>,
                     name |-> command_name, args |-> rest]

\* Command lists searched.  CommandsDoc has the shape of the doc test (a
\* plain command, then a command with one subcommand); the others add
\* aliases, a third level, duplicate names and names differing only in case.
CommandsDoc ==
    << Command(<<"c">>, <<>>, <<>>),
       Command(<<"p">>, <<>>, << Command(<<"c", "c">>, <<>>, <<>>) >>) >>

CommandsDeep ==
    << Command(<<"p">>, << <<"p", "c">> >>,
               << Command(<<"c">>, << <<"c", "c">>, <<"P">> >>,
                          << Command(<<"p">>, <<>>, <<>>) >>) >>),
       Command(<<"p">>, <<>>, <<>>),
       Command(<<"c">>, <<>>, <<>>) >>

CommandsCase ==
    << Command(<<"P">>, <<>>, << Command(<<"c">>, <<>>, <<>>) >>),
       Command(<<"p">>, << <<"C">> >>, << Command(<<"p">>, <<>>, <<>>) >>) >>

CommandLists == {CommandsDoc, CommandsDeep, CommandsCase}

FindChars == {"p", "P", "c", " "}

InitFind ==
    /\ pc = "call"
    /\ commands \in CommandLists
    /\ remaining_message \in TextsUpTo(FindChars, MaxMessageLen)
    /\ case_insensitive \in BOOLEAN
    /\ found = Idle
    /\ options = Idle /\ content = Idle /\ stripped = Idle
    /\ slots = Idle /\ args = Idle /\ parsed = Idle
    /\ message = Idle /\ triggered_by_edit = Idle /\ previously_tracked = Idle
    /\ ctx = Idle /\ calls = Idle /\ res = Idle /\ result = Idle

FindCommand ==
    /\ pc = "call"
    /\ found' = find_command(commands, remaining_message, case_insensitive)
    /\ pc' = "done"
    /\ UNCHANGED <<commands, remaining_message, case_insensitive,
                   options, content, stripped, slots, args, parsed,
                   message, triggered_by_edit, previously_tracked, ctx, calls, res, result>>

NextFind == FindCommand

SpecFind == InitFind /\ [][NextFind]_vars

---------------------------------------------------------------------------
(* strip_prefix *)

SomePair(prefix, rest) == [some |-> TRUE, prefix |-> prefix, rest |-> rest]

\* str::split_at(n), as the pair strip_prefix returns
split_at(s, n) == SomePair(SubSeq(s, 1, n), SubSeq(s, n + 1, Len(s)))

\* str::strip_prefix: Some(rest) or None
str_strip_prefix(s, p) ==
    IF starts_with(s, p) THEN [some |-> TRUE, v |-> SubSeq(s, Len(p) + 1, Len(s))]
    ELSE NoneVal

\* str::trim_start_matches(c)
trim_start_matches(s, c) ==
    LET keep == {i \in 1..Len(s) : s[i] # c}
    IN IF keep = {} THEN <<>> ELSE SubSeq(s, SetMin(keep), Len(s))

\* u64::to_string for the user ids used
RECURSIVE to_string(_)
to_string(n) ==
    LET digit == <<"0", "1", "2", "3", "4", "5", "6", "7", "8", "9">>[(n % 10) + 1]
    IN IF n < 10 THEN <<digit>> ELSE to_string(n \div 10) \o <<digit>>

\* Regex::find for a pattern `c+`: the leftmost match, longest at that start;
\* start and end are byte offsets as regex::Match gives them
regex_find(re, s) ==
    LET at == {i \in 1..Len(s) : s[i] = re}
    IN IF at = {} THEN NoneVal
       ELSE LET first == SetMin(at)
                stop == {j \in first..Len(s) : j = Len(s) \/ s[j + 1] # re}
            IN [some |-> TRUE, start |-> first - 1, end |-> SetMin(stop)]

\* lines 13-27: the dynamic_prefix callback and the starts_with test
dynamic_prefix_match(opts, text) ==
    IF opts.dynamic_prefix.set /\ opts.dynamic_prefix.returns.some
       /\ starts_with(text, opts.dynamic_prefix.returns.v)
    THEN split_at(text, Len(opts.dynamic_prefix.returns.v))
    ELSE NoneVal

\* lines 29-33: the fixed prefix
fixed_prefix_match(opts, text) ==
    IF opts.prefix.some /\ str_strip_prefix(text, opts.prefix.v).some
    THEN SomePair(opts.prefix.v, str_strip_prefix(text, opts.prefix.v).v)
    ELSE NoneVal

\* A faulty variant: a pattern that matches later in the content is accepted
\* and the text before the match is dropped
prefix_entry_match_unanchored(entry, text) ==
    IF entry.kind = "Literal"
    THEN IF str_strip_prefix(text, entry.s).some
         THEN SomePair(entry.s, str_strip_prefix(text, entry.s).v)
         ELSE NoneVal
    ELSE LET regex_match == regex_find(entry.re, text)
         IN IF regex_match.some
            THEN SomePair(SubSeq(text, regex_match.start + 1, regex_match.end),
                          SubSeq(text, regex_match.end + 1, Len(text)))
            ELSE NoneVal

\* lines 40-50: the closure given to find_map
prefix_entry_match(entry, text) ==
    IF entry.kind = "Literal"
    THEN IF str_strip_prefix(text, entry.s).some
         THEN SomePair(entry.s, str_strip_prefix(text, entry.s).v)
         ELSE NoneVal
    ELSE LET regex_match == regex_find(entry.re, text)
         IN IF regex_match.some /\ regex_match.start = 0
            THEN split_at(text, regex_match.end)
            ELSE NoneVal

\* lines 35-53: additional_prefixes.iter().find_map(..)
additional_prefixes_match(opts, text) ==
    LET hits == {k \in 1..Len(opts.additional_prefixes) :
                    prefix_entry_match(opts.additional_prefixes[k], text).some}
    IN IF hits = {} THEN NoneVal
       ELSE prefix_entry_match(opts.additional_prefixes[SetMin(hits)], text)

\* lines 55-60: the stripped_dynamic_prefix callback, its pair returned as it is
stripped_dynamic_prefix_match(opts, text) ==
    IF opts.stripped_dynamic_prefix.set /\ opts.stripped_dynamic_prefix.returns.some
    THEN opts.stripped_dynamic_prefix.returns
    ELSE NoneVal

\* lines 62-74: <@ID> or <@!ID>
mention_prefix_match(opts, text) ==
    LET a == str_strip_prefix(text, <<"<", "@">>)
        b == IF a.some
             THEN str_strip_prefix(trim_start_matches(a.v, "!"), to_string(opts.current_user_id))
             ELSE NoneVal
        stripped_content == IF b.some THEN str_strip_prefix(b.v, <<">">>) ELSE NoneVal
    IN IF opts.mention_as_prefix /\ stripped_content.some
       THEN SomePair(SubSeq(text, 1, Len(text) - Len(stripped_content.v)), stripped_content.v)
       ELSE NoneVal

\* A faulty variant: the mention is tried before the stripped dynamic prefix
strip_prefix_mention_early(opts, text) ==
    IF dynamic_prefix_match(opts, text).some THEN dynamic_prefix_match(opts, text)
    ELSE IF fixed_prefix_match(opts, text).some THEN fixed_prefix_match(opts, text)
    ELSE IF additional_prefixes_match(opts, text).some THEN additional_prefixes_match(opts, text)
    ELSE IF mention_prefix_match(opts, text).some THEN mention_prefix_match(opts, text)
    ELSE stripped_dynamic_prefix_match(opts, text)

strip_prefix(opts, text) ==
    IF dynamic_prefix_match(opts, text).some THEN dynamic_prefix_match(opts, text)
    ELSE IF fixed_prefix_match(opts, text).some THEN fixed_prefix_match(opts, text)
    ELSE IF additional_prefixes_match(opts, text).some THEN additional_prefixes_match(opts, text)
    ELSE IF stripped_dynamic_prefix_match(opts, text).some
         THEN stripped_dynamic_prefix_match(opts, text)
    ELSE mention_prefix_match(opts, text)

\* Configurations explored.  A callback is either not configured, or
\* configured with the value it returns for the message at hand.
Unset == [set |-> FALSE]
Returns(r) == [set |-> TRUE, returns |-> r]
SomeText(t) == [some |-> TRUE, v |-> t]
Literal(s) == [kind |-> "Literal", s |-> s]
Regex(c) == [kind |-> "Regex", re |-> c]

DynamicPrefixes == {Unset, Returns(NoneVal), Returns(SomeText(<<"!">>))}

FixedPrefixes == {NoneVal, SomeText(<<"!", "!">>), SomeText(<<"<">>)}

AdditionalPrefixes ==
    { <<>>,
      <<Regex("!")>>,
      <<Literal(<<"<", "@">>), Regex("!")>>,
      <<Regex("@"), Literal(<<"!">>), Literal(<<"<", "@", "1">>)>> }

StrippedDynamicPrefixes ==
    {Unset, Returns(NoneVal), Returns(SomePair(<<"@">>, <<"1">>))}

BotUserId == 1

PrefixOptions ==
    [dynamic_prefix : DynamicPrefixes,
     prefix : FixedPrefixes,
     additional_prefixes : AdditionalPrefixes,
     stripped_dynamic_prefix : StrippedDynamicPrefixes,
     mention_as_prefix : BOOLEAN,
     current_user_id : {BotUserId}]

ContentChars == {"<", "@", "!", "1", ">"}

InitStrip ==
    /\ pc = "call"
    /\ options \in PrefixOptions
    /\ content \in TextsUpTo(ContentChars, MaxContentLen)
    /\ stripped = Idle
    /\ commands = Idle /\ remaining_message = Idle /\ case_insensitive = Idle /\ found = Idle
    /\ slots = Idle /\ args = Idle /\ parsed = Idle
    /\ message = Idle /\ triggered_by_edit = Idle /\ previously_tracked = Idle
    /\ ctx = Idle /\ calls = Idle /\ res = Idle /\ result = Idle

StripPrefix ==
    /\ pc = "call"
    /\ stripped' = strip_prefix(options, content)
    /\ pc' = "done"
    /\ UNCHANGED <<commands, remaining_message, case_insensitive, found,
                   options, content, slots, args, parsed,
                   message, triggered_by_edit, previously_tracked, ctx, calls, res, result>>

NextStrip == StripPrefix

SpecStrip == InitStrip /\ [][NextStrip]_vars

\* strip_prefix with the mention as the only prefix that can match: the
\* callbacks are not configured or return None, no fixed prefix is set, and
\* the bot is user 1 or user 11.
OtherUserId == 11

MentionOptions ==
    [dynamic_prefix : {Unset, Returns(NoneVal)},
     prefix : {NoneVal},
     additional_prefixes : {<<>>},
     stripped_dynamic_prefix : {Unset, Returns(NoneVal)},
     mention_as_prefix : BOOLEAN,
     current_user_id : {BotUserId, OtherUserId}]

InitMention ==
    /\ pc = "call"
    /\ options \in MentionOptions
    /\ content \in TextsUpTo(ContentChars, MaxMentionLen)
    /\ stripped = Idle
    /\ commands = Idle /\ remaining_message = Idle /\ case_insensitive = Idle /\ found = Idle
    /\ slots = Idle /\ args = Idle /\ parsed = Idle
    /\ message = Idle /\ triggered_by_edit = Idle /\ previously_tracked = Idle
    /\ ctx = Idle /\ calls = Idle /\ res = Idle /\ result = Idle

SpecMention == InitMention /\ [][NextStrip]_vars

---------------------------------------------------------------------------
(* parse_prefix_args! and _parse_prefix! *)

\* Bound values
StringV(t) == [t |-> "String", s |-> t]
U32V(n) == [t |-> "u32", n |-> n]
NoneV == [t |-> "None"]
SomeV(v) == [t |-> "Some", v |-> v]
VecV(items) == [t |-> "Vec", items |-> items]
BoolV(b) == [t |-> "bool", b |-> b]

\* Parameters of an invocation
Required(type) == [kind |-> "T", type |-> type]
OptionGreedy(type) == [kind |-> "Option", type |-> type]
OptionLazy(type) == [kind |-> "LazyOption", type |-> type]
RestOption(type) == [kind |-> "RestOption", type |-> type]
Repeated(type) == [kind |-> "Vec", type |-> type]
Rest(type) == [kind |-> "Rest", type |-> type]
Flag(name) == [kind |-> "Flag", name |-> name]

\* The error pair (Box<dyn Error>, Option<String>)
TooManyArguments == [kind |-> "TooManyArguments", literal |-> NoneVal]
TooFewArguments == [kind |-> "TooFewArguments", literal |-> NoneVal]
ConversionError(type, input) == [kind |-> "ConversionError", type |-> type, literal |-> SomeText(input)]
FlagError(name) == [kind |-> "MustUseFlagOrNothing", name |-> name, literal |-> NoneVal]

RECURSIVE decimal_value(_)
decimal_value(t) ==
    IF t = <<>> THEN 0
    ELSE 10 * decimal_value(SubSeq(t, 1, Len(t) - 1)) + 8

\* <T as ArgumentConvert>::convert through FromStr: String takes any text as
\* it is; u32 takes a non-empty run of digits whose value fits 32 bits ("8"
\* is the digit of the alphabet, and a run of 8s fits exactly when it has at
\* most 9 digits: 888888888 < 2^32 <= 8888888888)
convert(type, input) ==
    IF type = "String" THEN [ok |-> TRUE, token |-> StringV(input)]
    ELSE IF input # <<>> /\ (\A i \in 1..Len(input) : input[i] = "8")
            /\ Len(input) <= 9
         THEN [ok |-> TRUE, token |-> U32V(decimal_value(input))]
         ELSE [ok |-> FALSE]

\* pop_prefix_argument!(type, &args, ctx, msg): leading whitespace is skipped,
\* the text up to the next whitespace is the token, the text after the run of
\* whitespace following it is what remains; no token gives TooFewArguments and
\* a token that does not convert gives the conversion error with the token.
\* (A token in backticks may hold whitespace; the alphabet has no backtick.)
\* `calls` lists the converter calls made (none or one).
pop_prefix_argument(type, text) ==
    LET input == trim_start(text)
        token == splitn2(input)[1]
        after == trim_start(splitn2(input)[2])
    IN IF input = <<>>
       THEN [ok |-> FALSE, error |-> TooFewArguments, calls |-> <<>>]
       ELSE IF convert(type, token).ok
            THEN [ok |-> TRUE, args |-> after, token |-> convert(type, token).token,
                  calls |-> << <<type, token>> >>]
            ELSE [ok |-> FALSE, error |-> ConversionError(type, token),
                  calls |-> << <<type, token>> >>]

\* What a macro expansion threads through its statements: the `error`
\* variable, and three logs: every expansion entered (the parameter that made
\* the binding, the text and the bindings handed on), every converter call,
\* and every attempt of a parameter to take something from the text.
Failed(st) ==
    [ret |-> FALSE, value |-> <<>>, error |-> st.error,
     trials |-> st.trials, converts |-> st.converts, events |-> st.events]

Returned(value, st) ==
    [ret |-> TRUE, value |-> value, error |-> st.error,
     trials |-> st.trials, converts |-> st.converts, events |-> st.events]

StateOf(r) ==
    [error |-> r.error, trials |-> r.trials, converts |-> r.converts,
     events |-> r.events]

Called(st, popped) == [st EXCEPT !.converts = @ \o popped.calls]

\* An attempt, as the expansion numbered `entry` in the log of expansions
\* makes it: what kind of parameter, the type converted to, the text it read
\* from, the token it found (none when the text had run out) and whether the
\* parameter took it.
Noted(st, entry, kind, type, text, token, ok) ==
    [st EXCEPT !.events =
        Append(@, [entry |-> entry, slot |-> st.trials[entry].slot + 1, kind |-> kind,
                   type |-> type, from |-> text, token |-> token, ok |-> ok])]

TokenRead(popped) ==
    IF popped.calls = <<>> THEN NoneVal ELSE SomeText(popped.calls[1][2])

\* pop_prefix_argument! called by an expansion
Attempted(st, entry, type, text, popped) ==
    Noted(Called(st, popped), entry, "pop", type, text, TokenRead(popped), popped.ok)

\* pop_prefix_argument! and the comparison with the literal in a flag expansion
FlagAttempted(st, entry, text, popped, name) ==
    Noted(Called(st, popped), entry, "flag", "String", text, TokenRead(popped),
          popped.ok /\ eq_ignore_ascii_case(popped.token.s, name))

SetError(st, e) == [st EXCEPT !.error = e]

DropLast(q) == IF q = <<>> THEN <<>> ELSE SubSeq(q, 1, Len(q) - 1)

\* _parse_prefix!(ctx msg text => [error bound...] params[i], params[i+1], ...)
RECURSIVE parse_prefix(_, _, _, _, _)

\* A faulty variant: the terminal expansion returns whatever text is left
arm_terminal_ignores_rest(params, i, text, bound, st) ==
    Returned(bound, st)

\* All arguments have been consumed (lines 7-12)
arm_terminal(params, i, text, bound, st) ==
    IF text = <<>> THEN Returned(bound, st) ELSE Failed(st)

\* A faulty variant: the greedy Option<T> binds None first
arm_option_skip_first(params, i, text, bound, st) ==
    LET first == parse_prefix(params, i + 1, text, Append(bound, NoneV), st)
        popped == pop_prefix_argument(params[i].type, text)
        tried == Attempted(StateOf(first), Len(st.trials), params[i].type, text, popped)
    IN IF first.ret THEN first
       ELSE IF popped.ok
            THEN parse_prefix(params, i + 1, popped.args,
                              Append(bound, SomeV(popped.token)),
                              tried)
            ELSE Failed(SetError(tried, popped.error))

\* Option<T>, greedy-first (lines 14-28)
arm_option(params, i, text, bound, st) ==
    LET popped == pop_prefix_argument(params[i].type, text)
        tried == Attempted(st, Len(st.trials), params[i].type, text, popped)
        first == IF popped.ok
                 THEN parse_prefix(params, i + 1, popped.args,
                                   Append(bound, SomeV(popped.token)), tried)
                 ELSE Failed(SetError(tried, popped.error))
    IN IF first.ret THEN first
       ELSE parse_prefix(params, i + 1, text, Append(bound, NoneV), StateOf(first))

\* A faulty variant: the lazy Option<T> consumes first
arm_lazy_option_consume_first(params, i, text, bound, st) ==
    LET popped == pop_prefix_argument(params[i].type, text)
        tried == Attempted(st, Len(st.trials), params[i].type, text, popped)
        first == IF popped.ok
                 THEN parse_prefix(params, i + 1, popped.args,
                                   Append(bound, SomeV(popped.token)), tried)
                 ELSE Failed(SetError(tried, popped.error))
    IN IF first.ret THEN first
       ELSE parse_prefix(params, i + 1, text, Append(bound, NoneV), StateOf(first))

\* #[lazy] Option<T> (lines 30-44)
arm_lazy_option(params, i, text, bound, st) ==
    LET first == parse_prefix(params, i + 1, text, Append(bound, NoneV), st)
        popped == pop_prefix_argument(params[i].type, text)
        tried == Attempted(StateOf(first), Len(st.trials), params[i].type, text, popped)
    IN IF first.ret THEN first
       ELSE IF popped.ok
            THEN parse_prefix(params, i + 1, popped.args,
                              Append(bound, SomeV(popped.token)),
                              tried)
            ELSE Failed(SetError(tried, popped.error))

\* #[rest] Option<T> (lines 46-67); the expansion that follows is the
\* terminal one whatever parameters follow
arm_rest_option(params, i, text, bound, st) ==
    LET input == trim_start(text)
        called == Noted([st EXCEPT !.converts = Append(@, <<params[i].type, input>>)],
                        Len(st.trials), "rest", params[i].type, text, SomeText(input),
                        convert(params[i].type, input).ok)
    IN IF input = <<>>
       THEN parse_prefix(params, Len(params) + 1, text, Append(bound, NoneV), st)
       ELSE IF convert(params[i].type, input).ok
            THEN parse_prefix(params, Len(params) + 1, <<>>,
                              Append(bound, SomeV(convert(params[i].type, input).token)),
                              called)
            ELSE Failed(SetError(called, ConversionError(params[i].type, input)))

\* The loop of lines 77-91: tokens, token_rest_args and the state after it
RECURSIVE vec_pop_loop(_, _, _, _, _)
vec_pop_loop(type, running_args, tokens, token_rest_args, st) ==
    LET popped == pop_prefix_argument(type, running_args)
        tried == Attempted(st, Len(st.trials), type, running_args, popped)
    IN IF popped.ok
       THEN vec_pop_loop(type, popped.args, Append(tokens, popped.token),
                         Append(token_rest_args, popped.args), tried)
       ELSE [tokens |-> tokens, token_rest_args |-> token_rest_args,
             st |-> SetError(tried, popped.error)]

\* The loop of lines 94-97
RECURSIVE vec_trial_loop(_, _, _, _, _, _)
\* A faulty variant: tokens.pop() is left out of the loop
vec_trial_loop_keeps_tokens(params, i, bound, tokens, token_rest_args, st) ==
    IF token_rest_args = <<>> THEN Failed(st)
    ELSE LET trial == parse_prefix(params, i + 1, token_rest_args[Len(token_rest_args)],
                                   Append(bound, VecV(tokens)), st)
         IN IF trial.ret THEN trial
            ELSE vec_trial_loop(params, i, bound, tokens,
                                DropLast(token_rest_args), StateOf(trial))

vec_trial_loop(params, i, bound, tokens, token_rest_args, st) ==
    IF token_rest_args = <<>> THEN Failed(st)
    ELSE LET trial == parse_prefix(params, i + 1, token_rest_args[Len(token_rest_args)],
                                   Append(bound, VecV(tokens)), st)
         IN IF trial.ret THEN trial
            ELSE vec_trial_loop(params, i, bound, DropLast(tokens),
                                DropLast(token_rest_args), StateOf(trial))

\* A faulty variant: the Vec<T> pops its tokens a second time before its trials
arm_vec_pops_twice(params, i, text, bound, st) ==
    LET popped == vec_pop_loop(params[i].type, text, <<>>, <<text>>, st)
        again == vec_pop_loop(params[i].type, text, <<>>, <<text>>, popped.st)
    IN vec_trial_loop(params, i, bound, again.tokens, again.token_rest_args, again.st)

\* Vec<T>, greedy-first (lines 69-98)
arm_vec(params, i, text, bound, st) ==
    LET popped == vec_pop_loop(params[i].type, text, <<>>, <<text>>, st)
    IN vec_trial_loop(params, i, bound, popped.tokens, popped.token_rest_args, popped.st)

\* A faulty variant: #[rest] T converts one token as a plain T does
arm_rest_one_token(params, i, text, bound, st) ==
    LET popped == pop_prefix_argument(params[i].type, text)
        tried == Attempted(st, Len(st.trials), params[i].type, text, popped)
    IN IF popped.ok
       THEN parse_prefix(params, Len(params) + 1, popped.args, Append(bound, popped.token),
                         tried)
       ELSE Failed(SetError(tried, popped.error))

\* #[rest] T as the last argument (lines 103-122)
arm_rest(params, i, text, bound, st) ==
    LET input == trim_start(text)
        called == Noted([st EXCEPT !.converts = Append(@, <<params[i].type, input>>)],
                        Len(st.trials), "rest", params[i].type, text, SomeText(input),
                        convert(params[i].type, input).ok)
        nothing == Noted(st, Len(st.trials), "rest", params[i].type, text, NoneVal, FALSE)
    IN IF input = <<>> THEN Failed(SetError(nothing, TooFewArguments))
       ELSE IF convert(params[i].type, input).ok
            THEN parse_prefix(params, Len(params) + 1, <<>>,
                              Append(bound, convert(params[i].type, input).token), called)
            ELSE Failed(SetError(called, ConversionError(params[i].type, input)))

\* A faulty variant: a matched flag falls back to false when what follows fails
arm_flag_backtracks(params, i, text, bound, st) ==
    LET popped == pop_prefix_argument("String", text)
        tried == FlagAttempted(st, Len(st.trials), text, popped, params[i].name)
        hit == popped.ok /\ eq_ignore_ascii_case(popped.token.s, params[i].name)
        first == parse_prefix(params, i + 1, popped.args, Append(bound, BoolV(TRUE)),
                              tried)
    IN IF hit /\ first.ret THEN first
       ELSE parse_prefix(params, i + 1, text, Append(bound, BoolV(FALSE)),
                         SetError(IF hit THEN StateOf(first) ELSE tried,
                                  FlagError(params[i].name)))

\* A faulty variant: a flag that does not match still consumes the token
arm_flag_consumes_on_miss(params, i, text, bound, st) ==
    LET popped == pop_prefix_argument("String", text)
        tried == FlagAttempted(st, Len(st.trials), text, popped, params[i].name)
    IN IF popped.ok /\ eq_ignore_ascii_case(popped.token.s, params[i].name)
       THEN parse_prefix(params, i + 1, popped.args, Append(bound, BoolV(TRUE)),
                         tried)
       ELSE parse_prefix(params, i + 1, IF popped.ok THEN popped.args ELSE text,
                         Append(bound, BoolV(FALSE)),
                         SetError(tried, FlagError(params[i].name)))

\* A faulty variant: a flag that does not match leaves `error` as it was
arm_flag_no_error(params, i, text, bound, st) ==
    LET popped == pop_prefix_argument("String", text)
        tried == FlagAttempted(st, Len(st.trials), text, popped, params[i].name)
    IN IF popped.ok /\ eq_ignore_ascii_case(popped.token.s, params[i].name)
       THEN parse_prefix(params, i + 1, popped.args, Append(bound, BoolV(TRUE)),
                         tried)
       ELSE parse_prefix(params, i + 1, text, Append(bound, BoolV(FALSE)), tried)

\* #[flag] FLAGNAME (lines 124-140)
arm_flag(params, i, text, bound, st) ==
    LET popped == pop_prefix_argument("String", text)
        tried == FlagAttempted(st, Len(st.trials), text, popped, params[i].name)
    IN IF popped.ok /\ eq_ignore_ascii_case(popped.token.s, params[i].name)
       THEN parse_prefix(params, i + 1, popped.args, Append(bound, BoolV(TRUE)),
                         tried)
       ELSE parse_prefix(params, i + 1, text, Append(bound, BoolV(FALSE)),
                         SetError(tried, FlagError(params[i].name)))

\* A faulty variant: a T that fails leaves `error` as it was
arm_required_keeps_error(params, i, text, bound, st) ==
    LET popped == pop_prefix_argument(params[i].type, text)
        tried == Attempted(st, Len(st.trials), params[i].type, text, popped)
    IN IF popped.ok
       THEN parse_prefix(params, i + 1, popped.args, Append(bound, popped.token),
                         tried)
       ELSE Failed(tried)

\* T (lines 142-153)
arm_required(params, i, text, bound, st) ==
    LET popped == pop_prefix_argument(params[i].type, text)
        tried == Attempted(st, Len(st.trials), params[i].type, text, popped)
    IN IF popped.ok
       THEN parse_prefix(params, i + 1, popped.args, Append(bound, popped.token),
                         tried)
       ELSE Failed(SetError(tried, popped.error))

\* One expansion of the macro: the arm is chosen by the first parameter left.
\* The expansion is logged with the number of the parameter that made the
\* last binding (0 for the outermost one), the text and the bindings it is
\* given and the value of `error` at that moment.
parse_prefix(params, i, text, bound, st) ==
    LET entered == [st EXCEPT !.trials =
                        Append(@, [slot |-> i - 1, args |-> text, bound |-> bound,
                                   error |-> st.error])]
    IN IF i > Len(params) THEN arm_terminal(params, i, text, bound, entered)
       ELSE CASE params[i].kind = "Option" -> arm_option(params, i, text, bound, entered)
              [] params[i].kind = "LazyOption" -> arm_lazy_option(params, i, text, bound, entered)
              [] params[i].kind = "RestOption" -> arm_rest_option(params, i, text, bound, entered)
              [] params[i].kind = "Vec" -> arm_vec(params, i, text, bound, entered)
              [] params[i].kind = "Rest" -> arm_rest(params, i, text, bound, entered)
              [] params[i].kind = "Flag" -> arm_flag(params, i, text, bound, entered)
              [] params[i].kind = "T" -> arm_required(params, i, text, bound, entered)

\* parse_prefix_args!(ctx, msg, text => params) (lines 207-232)
parse_prefix_args(params, text) ==
    LET run == parse_prefix(params, 1, text, <<>>,
                            [error |-> TooManyArguments, trials |-> <<>>, converts |-> <<>>,
                             events |-> <<>>])
    IN IF run.ret
       THEN [ok |-> TRUE, value |-> run.value,
             trials |-> run.trials, converts |-> run.converts, events |-> run.events]
       ELSE [ok |-> FALSE, error |-> run.error,
             trials |-> run.trials, converts |-> run.converts, events |-> run.events]

\* Parameter lists explored: every list of at most two parameters in which
\* a #[rest] parameter comes last, and lists of three that the tests and the
\* documentation use or that put two backtracking parameters in a row.
ArgTypes == {"String", "u32"}

FlagName == <<"a">>

InnerParams ==
    {Required(t) : t \in ArgTypes} \cup {OptionGreedy(t) : t \in ArgTypes}
        \cup {OptionLazy(t) : t \in ArgTypes} \cup {Repeated(t) : t \in ArgTypes}
        \cup {Flag(FlagName)}

LastParams ==
    InnerParams \cup {Rest(t) : t \in ArgTypes} \cup {RestOption(t) : t \in ArgTypes}

TripleParams ==
    { <<Repeated("String"), Required("u32"), Repeated("String")>>,
      <<Required("String"), OptionGreedy("u32"), Rest("String")>>,
      <<OptionGreedy("String"), Flag(FlagName), Rest("String")>>,
      <<Repeated("String"), Flag(FlagName), Required("String")>>,
      <<OptionLazy("String"), OptionGreedy("u32"), Repeated("String")>>,
      <<OptionGreedy("String"), OptionGreedy("String"), Required("String")>>,
      <<Repeated("u32"), OptionLazy("String"), RestOption("u32")>>,
      <<Flag(FlagName), Repeated("String"), Required("u32")>>,
      <<OptionLazy("u32"), OptionLazy("String"), Rest("u32")>> }

ParamLists ==
    {<<>>} \cup {<<p>> : p \in LastParams}
        \cup {<<p, q>> : p \in InnerParams, q \in LastParams}
        \cup TripleParams

ArgChars == {"a", "A", "8", " "}

InitParse ==
    /\ pc = "call"
    /\ slots \in ParamLists
    /\ args \in TextsUpTo(ArgChars, MaxArgsLen)
    /\ parsed = Idle
    /\ commands = Idle /\ remaining_message = Idle /\ case_insensitive = Idle /\ found = Idle
    /\ options = Idle /\ content = Idle /\ stripped = Idle
    /\ message = Idle /\ triggered_by_edit = Idle /\ previously_tracked = Idle
    /\ ctx = Idle /\ calls = Idle /\ res = Idle /\ result = Idle

ParsePrefixArgs ==
    /\ pc = "call"
    /\ parsed' = parse_prefix_args(slots, args)
    /\ pc' = "done"
    /\ UNCHANGED <<commands, remaining_message, case_insensitive, found,
                   options, content, stripped, slots, args,
                   message, triggered_by_edit, previously_tracked, ctx, calls, res, result>>

NextParse == ParsePrefixArgs

SpecParse == InitParse /\ [][NextParse]_vars

---------------------------------------------------------------------------
(* dispatch_message *)

\* The returned Result<(), Option<(FrameworkError, &Command)>>; a command is
\* named by its position in framework.options.commands, as find_command
\* returns it
Ok == [ok |-> TRUE]
ErrNone == [ok |-> FALSE, error |-> NoneVal]
ErrSome(e, command) ==
    [ok |-> FALSE, error |-> [some |-> TRUE, e |-> e, command |-> command]]

RECURSIVE command_at(_, _)
command_at(cmds, path) ==
    IF Len(path) = 1 THEN cmds[path[1]]
    ELSE command_at(cmds[path[1]].subcommands, Tail(path))

\* A faulty variant: a message that names no command runs the first command
resolve_command_defaults(opts, cmds, m, edit, tracked, prefix, rest) ==
    LET msg_content == trim_start(rest)
        hit == find_command(cmds, msg_content, opts.case_insensitive_commands)
        f == IF hit.some THEN hit
             ELSE [some |-> TRUE, command |-> <<1>>, name |-> <<>>, args |-> msg_content]
        command == command_at(cmds, f.command)
    IN IF opts.current_user_id = m.author.id /\ ~opts.execute_self_messages THEN NoneVal
       ELSE IF ~command.prefix_action THEN NoneVal
       ELSE IF edit /\ ~(command.invoke_on_edit
                           \/ (~tracked /\ opts.execute_untracked_edits)) THEN NoneVal
       ELSE [some |-> TRUE, prefix |-> prefix, invoked_command_name |-> f.name,
             command |-> f.command, args |-> f.args]

\* A faulty variant: the bot's own messages are executed whatever the option
resolve_command_ignores_author(opts, cmds, m, edit, tracked, prefix, rest) ==
    LET msg_content == trim_start(rest)
        f == find_command(cmds, msg_content, opts.case_insensitive_commands)
        command == command_at(cmds, f.command)
    IN IF ~f.some THEN NoneVal
       ELSE IF ~command.prefix_action THEN NoneVal
       ELSE IF edit /\ ~(command.invoke_on_edit
                           \/ (~tracked /\ opts.execute_untracked_edits)) THEN NoneVal
       ELSE [some |-> TRUE, prefix |-> prefix, invoked_command_name |-> f.name,
             command |-> f.command, args |-> f.args]

\* Lines 167-199, between strip_prefix and the permission check: None where
\* the code returns Err(None), otherwise the PrefixContext built, with `args`
resolve_command(opts, cmds, m, edit, tracked, prefix, rest) ==
    LET msg_content == trim_start(rest)
        f == find_command(cmds, msg_content, opts.case_insensitive_commands)
        command == command_at(cmds, f.command)
    IN IF opts.current_user_id = m.author.id /\ ~opts.execute_self_messages THEN NoneVal
       ELSE IF ~f.some THEN NoneVal
       ELSE IF ~command.prefix_action THEN NoneVal
       ELSE IF edit /\ ~(command.invoke_on_edit
                           \/ (~tracked /\ opts.execute_untracked_edits)) THEN NoneVal
       ELSE [some |-> TRUE, prefix |-> prefix, invoked_command_name |-> f.name,
             command |-> f.command, args |-> f.args]

\* What the awaited user code can answer: the permission and cooldown check
\* (super::common, not part of the sources at hand) and the command action
CheckOutcomes == {[ok |-> TRUE], [ok |-> FALSE, error |-> "CheckFailed"]}

ActionOutcomes == {[ok |-> TRUE], [ok |-> FALSE, error |-> "CommandError"]}

\* Entries of the log of user code invoked: a hook, the check with its
\* answer, the action with the text it is given and its answer
Invoked(call, command) == [call |-> call, command |-> command]

Answered(call, command, outcome) ==
    [call |-> call, command |-> command, outcome |-> outcome]

Run(command, text, outcome) ==
    [call |-> "action", command |-> command, args |-> text, outcome |-> outcome]

\* Inputs explored: the prefix "!", a command p (alias c) with a subcommand c,
\* each with or without a prefix action and invoke_on_edit; a message by the
\* bot (user 1) or by user 11.
PrefixCommand(name, aliases, subcommands, prefix_action, invoke_on_edit) ==
    [name |-> name, aliases |-> aliases, subcommands |-> subcommands,
     prefix_action |-> prefix_action, invoke_on_edit |-> invoke_on_edit]

DispatchCommandLists ==
    { << PrefixCommand(<<"p">>, << <<"c">> >>,
                       << PrefixCommand(<<"c">>, <<>>, <<>>, a2, e2) >>, a1, e1) >> :
        a1 \in BOOLEAN, e1 \in BOOLEAN, a2 \in BOOLEAN, e2 \in BOOLEAN }

DispatchOptions ==
    [dynamic_prefix : {Unset},
     prefix : {SomeText(<<"!">>)},
     additional_prefixes : {<<>>},
     stripped_dynamic_prefix : {Unset},
     mention_as_prefix : {FALSE},
     current_user_id : {BotUserId},
     execute_self_messages : BOOLEAN,
     execute_untracked_edits : BOOLEAN,
     case_insensitive_commands : {FALSE}]

DispatchChars == {"!", "p", "c", " "}

Init ==
    /\ pc = "strip_prefix"
    /\ options \in DispatchOptions
    /\ commands \in DispatchCommandLists
    /\ content \in TextsUpTo(DispatchChars, MaxDispatchLen)
    /\ message \in [author : [id : {BotUserId, OtherUserId}]]
    /\ triggered_by_edit \in BOOLEAN
    /\ previously_tracked \in BOOLEAN
    /\ stripped = Idle /\ ctx = Idle /\ res = Idle /\ result = Idle
    /\ calls = <<>>
    /\ remaining_message = Idle /\ case_insensitive = Idle /\ found = Idle
    /\ slots = Idle /\ args = Idle /\ parsed = Idle

\* line 166
DispatchStripPrefix ==
    /\ pc = "strip_prefix"
    /\ stripped' = strip_prefix(options, content)
    /\ IF stripped'.some
       THEN pc' = "resolve" /\ UNCHANGED result
       ELSE pc' = "done" /\ result' = ErrNone
    /\ UNCHANGED <<commands, remaining_message, case_insensitive, found, options, content,
                   slots, args, parsed, message, triggered_by_edit, previously_tracked,
                   ctx, calls, res>>

\* lines 167-199
DispatchResolve ==
    /\ pc = "resolve"
    /\ ctx' = resolve_command(options, commands, message, triggered_by_edit,
                              previously_tracked, stripped.prefix, stripped.rest)
    /\ IF ctx'.some
       THEN pc' = "check" /\ UNCHANGED result
       ELSE pc' = "done" /\ result' = ErrNone
    /\ UNCHANGED <<commands, remaining_message, case_insensitive, found, options, content,
                   stripped, slots, args, parsed, message, triggered_by_edit,
                   previously_tracked, calls, res>>

\* lines 201-203
DispatchCheck ==
    /\ pc = "check"
    /\ \E outcome \in CheckOutcomes :
          /\ calls' = Append(calls, Answered("check_permissions_and_cooldown",
                                              ctx.command, outcome))
          /\ IF outcome.ok
             THEN pc' = "pre_command" /\ UNCHANGED result
             ELSE pc' = "done" /\ result' = ErrSome(outcome.error, ctx.command)
    /\ UNCHANGED <<commands, remaining_message, case_insensitive, found, options, content,
                   stripped, slots, args, parsed, message, triggered_by_edit,
                   previously_tracked, ctx, res>>

\* line 212
DispatchPreCommand ==
    /\ pc = "pre_command"
    /\ calls' = Append(calls, Invoked("pre_command", ctx.command))
    /\ pc' = "action"
    /\ UNCHANGED <<commands, remaining_message, case_insensitive, found, options, content,
                   stripped, slots, args, parsed, message, triggered_by_edit,
                   previously_tracked, ctx, res, result>>

\* A faulty variant: an error of the action is returned at once
DispatchAction_returns_on_error ==
    /\ pc = "action"
    /\ \E outcome \in ActionOutcomes :
          /\ calls' = Append(calls, Run(ctx.command, ctx.args, outcome))
          /\ IF outcome.ok
             THEN pc' = "post_command" /\ res' = Ok /\ UNCHANGED result
             ELSE /\ pc' = "done"
                  /\ res' = ErrSome(outcome.error, ctx.command)
                  /\ result' = res'
    /\ UNCHANGED <<commands, remaining_message, case_insensitive, found, options, content,
                   stripped, slots, args, parsed, message, triggered_by_edit,
                   previously_tracked, ctx>>

\* line 215
DispatchAction ==
    /\ pc = "action"
    /\ \E outcome \in ActionOutcomes :
          /\ calls' = Append(calls, Run(ctx.command, ctx.args, outcome))
          /\ res' = IF outcome.ok THEN Ok ELSE ErrSome(outcome.error, ctx.command)
    /\ pc' = "post_command"
    /\ UNCHANGED <<commands, remaining_message, case_insensitive, found, options, content,
                   stripped, slots, args, parsed, message, triggered_by_edit,
                   previously_tracked, ctx, result>>

\* lines 217-219
DispatchPostCommand ==
    /\ pc = "post_command"
    /\ calls' = Append(calls, Invoked("post_command", ctx.command))
    /\ result' = res
    /\ pc' = "done"
    /\ UNCHANGED <<commands, remaining_message, case_insensitive, found, options, content,
                   stripped, slots, args, parsed, message, triggered_by_edit,
                   previously_tracked, ctx, res>>

Next ==
    \/ DispatchStripPrefix
    \/ DispatchResolve
    \/ DispatchCheck
    \/ DispatchPreCommand
    \/ DispatchAction
    \/ DispatchPostCommand

Spec == Init /\ [][Next]_vars

---------------------------------------------------------------------------
(* Claims about find_command.  The tokens are taken from the text on their *)
(* own account: a token is a maximal run without whitespace.               *)

RECURSIVE SkipSpaces(_)
SkipSpaces(s) == IF s # <<>> /\ Head(s) = " " THEN SkipSpaces(Tail(s)) ELSE s

RECURSIVE TokenOf(_)
TokenOf(s) == IF s = <<>> \/ Head(s) = " " THEN <<>> ELSE <<Head(s)>> \o TokenOf(Tail(s))

\* the text after the leading token, left-trimmed
AfterToken(s) == SkipSpaces(SubSeq(s, Len(TokenOf(s)) + 1, Len(s)))

Folded(s) == [i \in 1..Len(s) |-> to_ascii_lowercase(s[i])]

Names(command) == {command.name} \cup {command.aliases[k] : k \in 1..Len(command.aliases)}

Named(command, tok, ci) ==
    \E n \in Names(command) : IF ci THEN Folded(n) = Folded(tok) ELSE n = tok

\* index of the first command of the list that tok names, 0 if there is none
FirstNamed(cmds, tok, ci) ==
    IF \E i \in 1..Len(cmds) : Named(cmds[i], tok, ci)
    THEN CHOOSE i \in 1..Len(cmds) :
            /\ Named(cmds[i], tok, ci)
            /\ \A j \in 1..(i - 1) : ~Named(cmds[j], tok, ci)
    ELSE 0

ParentHit == FirstNamed(commands, TokenOf(remaining_message), case_insensitive)

ChildHit ==
    IF ParentHit = 0 THEN 0
    ELSE FirstNamed(commands[ParentHit].subcommands,
                    TokenOf(AfterToken(remaining_message)), case_insensitive)

\* C1: when the leading token names a command p (the first such) and the next
\* token names a subcommand c of p, find_command returns c or a command below
\* c, never p; when it returns c itself, the name literal is the token that
\* matched c and the arguments are the text after that token, left-trimmed.
C1_SubcommandPriority ==
    (pc = "done" /\ ParentHit # 0 /\ ChildHit # 0) =>
        /\ found.some
        /\ Len(found.command) >= 2
        /\ found.command[1] = ParentHit
        /\ found.command[2] = ChildHit
        /\ (Len(found.command) = 2 =>
                /\ found.name = TokenOf(AfterToken(remaining_message))
                /\ found.args = AfterToken(AfterToken(remaining_message)))

\* "p cc P" in CommandsDeep: cc is an alias of p's subcommand, P names nothing below it
C1_Witness ==
    /\ pc = "done"
    /\ commands = CommandsDeep
    /\ ~case_insensitive
    /\ remaining_message = <<"p", " ", "c", "c", " ", "P">>
    /\ found = [some |-> TRUE, command |-> <<1, 1>>, name |-> <<"c", "c">>, args |-> <<"P">>]

\* C2: when the leading token names a command (the first such in list order)
\* and no subcommand of it is named by the following token, find_command
\* returns that command, the leading token as typed, and the text after the
\* leading token, left-trimmed.
C2_ParentFallback ==
    (pc = "done" /\ ParentHit # 0 /\ ChildHit = 0) =>
        found = [some |-> TRUE,
                 command |-> <<ParentHit>>,
                 name |-> TokenOf(remaining_message),
                 args |-> AfterToken(remaining_message)]

\* "p  cc" in CommandsCase, case-insensitively: the command named "P" is returned with "p"
C2_Witness ==
    /\ pc = "done"
    /\ commands = CommandsCase
    /\ case_insensitive
    /\ remaining_message = <<"p", " ", " ", "c", "c">>
    /\ found = [some |-> TRUE, command |-> <<1>>, name |-> <<"p">>, args |-> <<"c", "c">>]

\* C3: find_command returns None exactly when the leading token names no
\* command of the top-level list.
C3_NoneIffNoTopLevelMatch ==
    pc = "done" => (found = NoneVal <=> ParentHit = 0)

\* "p c" in CommandsDoc: p matches, its only subcommand is "cc", and p is returned
C3_Witness ==
    /\ pc = "done"
    /\ commands = CommandsDoc
    /\ remaining_message = <<"p", " ", "c">>
    /\ commands[2].subcommands # <<>>
    /\ ChildHit = 0
    /\ found.some
    /\ found.command = <<2>>

---------------------------------------------------------------------------
(* Claims about strip_prefix *)

\* The strategies in the order the claim gives them, every entry of
\* additional_prefixes being a strategy of its own: 1 the dynamic prefix,
\* 2 the fixed prefix, 3 .. 2+n the additional prefixes, then the stripped
\* dynamic prefix and the mention.
StrategyCount == 4 + Len(options.additional_prefixes)

StrategyOutcome(k) ==
    LET n == Len(options.additional_prefixes)
    IN IF k = 1 THEN dynamic_prefix_match(options, content)
       ELSE IF k = 2 THEN fixed_prefix_match(options, content)
       ELSE IF k <= 2 + n THEN prefix_entry_match(options.additional_prefixes[k - 2], content)
       ELSE IF k = 3 + n THEN stripped_dynamic_prefix_match(options, content)
       ELSE mention_prefix_match(options, content)

\* C4: strip_prefix returns the match of the first strategy, in the fixed
\* order, that succeeds: the result of strategy k is returned only if all
\* strategies before k failed or are not configured, and None only if all fail.
C4_FirstStrategyWins ==
    pc = "done" =>
        /\ \A k \in 1..StrategyCount :
              (StrategyOutcome(k).some /\ \A j \in 1..(k - 1) : ~StrategyOutcome(j).some)
                  => stripped = StrategyOutcome(k)
        /\ (stripped = NoneVal <=> \A k \in 1..StrategyCount : ~StrategyOutcome(k).some)

\* "<@1>" with a dynamic prefix "!" that does not match, a fixed prefix "!!"
\* that does not match, additional prefixes of which the third is the first to
\* match, and a stripped callback and the mention that would both match later
C4_Witness ==
    /\ pc = "done"
    /\ content = <<"<", "@", "1", ">">>
    /\ options.dynamic_prefix = Returns(SomeText(<<"!">>))
    /\ options.prefix = SomeText(<<"!", "!">>)
    /\ Len(options.additional_prefixes) = 3
    /\ ~StrategyOutcome(3).some /\ ~StrategyOutcome(4).some
    /\ StrategyOutcome(6).some /\ StrategyOutcome(7).some
    /\ stripped = SomePair(<<"<", "@", "1">>, <<">">>)

---------------------------------------------------------------------------
(* Claims about the argument parser.  An expansion of _parse_prefix! that  *)
(* starts at parameter j is an entry of parsed.trials with slot = j - 1;   *)
(* the expansions parameter j makes for the parameters after it are the    *)
(* entries with slot = j that follow, up to the next entry of a parameter  *)
(* before j.                                                               *)

Trials == parsed.trials

\* the expansions started by parameter Trials[t].slot + 1 while handling entry t
OwnTrials(t) ==
    {u \in (t + 1)..Len(Trials) :
        /\ Trials[u].slot = Trials[t].slot + 1
        /\ \A w \in (t + 1)..u : Trials[w].slot > Trials[t].slot}

\* the m-th of them in the order they were made
OwnTrial(t, m) ==
    Trials[CHOOSE u \in OwnTrials(t) : Cardinality({w \in OwnTrials(t) : w < u}) = m - 1]

\* entries at which a parameter of the given kind starts
EntriesOf(kind) ==
    {t \in 1..Len(Trials) :
        /\ Trials[t].slot < Len(slots)
        /\ slots[Trials[t].slot + 1].kind = kind}

SlotAt(t) == Trials[t].slot + 1

\* all parameters after j succeed on text and consume it entirely
TailOk(j, text) == parse_prefix_args(SubSeq(slots, j + 1, Len(slots)), text).ok

\* the error left by the parameters after j when they fail on text, `error`
\* holding e when they start
TailError(j, text, e) ==
    parse_prefix(SubSeq(slots, j + 1, Len(slots)), 1, text, <<>>,
                 [error |-> e, trials |-> <<>>, converts |-> <<>>, events |-> <<>>]).error

\* the leading token of text, if there is one, converts to type
HeadConverts(type, text) ==
    SkipSpaces(text) # <<>> /\ convert(type, TokenOf(SkipSpaces(text))).ok

HeadValue(type, text) == convert(type, TokenOf(SkipSpaces(text))).token

\* the text after the leading token and the whitespace that follows it
AfterHead(text) == AfterToken(SkipSpaces(text))

\* the run of leading tokens that convert to type, one after the other: the
\* value of each and the text left after it
RECURSIVE LeadingRun(_, _)
LeadingRun(type, text) ==
    IF HeadConverts(type, text)
    THEN <<[token |-> HeadValue(type, text), rest |-> AfterHead(text)]>>
             \o LeadingRun(type, AfterHead(text))
    ELSE <<>>

RunRest(run, text, k) == IF k = 0 THEN text ELSE run[k].rest

RunValue(run, k) == VecV([m \in 1..k |-> run[m].token])

VecEntryOk(t) ==
    LET j == SlotAt(t)
        text == Trials[t].args
        run == LeadingRun(slots[j].type, text)
        n == Len(run)
        wins == {k \in 0..n : TailOk(j, RunRest(run, text, k))}
        best == CHOOSE k \in wins : \A o \in wins : o <= k
        last == IF wins = {} THEN 0 ELSE best
    IN /\ Cardinality(OwnTrials(t)) = n - last + 1
       /\ \A m \in 1..(n - last + 1) :
             /\ OwnTrial(t, m).args = RunRest(run, text, n - m + 1)
             /\ OwnTrial(t, m).bound = Append(Trials[t].bound, RunValue(run, n - m + 1))
       /\ wins # {} =>
             /\ parsed.ok
             /\ SubSeq(parsed.value, 1, j) = Append(Trials[t].bound, RunValue(run, best))

\* C5: a Vec<T> parameter tries the lengths of the run of convertible leading
\* tokens from the longest down to zero, binding at each trial exactly the
\* tokens before that trial's remainder, and the parse returns with the
\* longest length for which the following parameters succeed.
C5_VecLongestFirst ==
    pc = "done" => \A t \in EntriesOf("Vec") : VecEntryOk(t)

\* "a 8 a" against (Vec<String>, u32, Vec<String>): three, two, then one token
C5_Witness ==
    /\ pc = "done"
    /\ slots = <<Repeated("String"), Required("u32"), Repeated("String")>>
    /\ args = <<"a", " ", "8", " ", "a">>
    /\ Cardinality(OwnTrials(1)) = 3
    /\ parsed.ok
    /\ parsed.value = << VecV(<<StringV(<<"a">>)>>), U32V(8), VecV(<<StringV(<<"a">>)>>) >>

OptionEntryOk(t) ==
    LET j == SlotAt(t)
        text == Trials[t].args
        type == slots[j].type
        some == Append(Trials[t].bound, SomeV(HeadValue(type, text)))
        none == Append(Trials[t].bound, NoneV)
    IN IF HeadConverts(type, text)
       THEN /\ OwnTrial(t, 1).bound = some
            /\ OwnTrial(t, 1).args = AfterHead(text)
            /\ IF TailOk(j, AfterHead(text))
               THEN /\ Cardinality(OwnTrials(t)) = 1
                    /\ parsed.ok
                    /\ SubSeq(parsed.value, 1, j) = some
               ELSE /\ Cardinality(OwnTrials(t)) = 2
                    /\ OwnTrial(t, 2).bound = none
                    /\ OwnTrial(t, 2).args = text
       ELSE /\ Cardinality(OwnTrials(t)) = 1
            /\ OwnTrial(t, 1).bound = none
            /\ OwnTrial(t, 1).args = text

\* C6: a greedy Option<T> parameter first binds Some(value) of one converted
\* token and, if the following parameters succeed, the parse returns with it;
\* only if the token does not convert or they fail does it bind None and have
\* the following parameters parse the text it was given.
C6_OptionGreedyFirst ==
    pc = "done" => \A t \in EntriesOf("Option") : OptionEntryOk(t)

\* "aA" against (Option<String>, String): Some("aA") fails, None succeeds
C6_Witness ==
    /\ pc = "done"
    /\ slots = <<OptionGreedy("String"), Required("String")>>
    /\ args = <<"a", "A">>
    /\ Cardinality(OwnTrials(1)) = 2
    /\ OwnTrial(1, 1).bound = <<SomeV(StringV(<<"a", "A">>))>>
    /\ parsed.ok
    /\ parsed.value = <<NoneV, StringV(<<"a", "A">>)>>

LazyEntryOk(t) ==
    LET j == SlotAt(t)
        text == Trials[t].args
        type == slots[j].type
        some == Append(Trials[t].bound, SomeV(HeadValue(type, text)))
        none == Append(Trials[t].bound, NoneV)
    IN /\ OwnTrial(t, 1).bound = none
       /\ OwnTrial(t, 1).args = text
       /\ IF TailOk(j, text)
          THEN /\ Cardinality(OwnTrials(t)) = 1
               /\ parsed.ok
               /\ SubSeq(parsed.value, 1, j) = none
          ELSE IF HeadConverts(type, text)
               THEN /\ Cardinality(OwnTrials(t)) = 2
                    /\ OwnTrial(t, 2).bound = some
                    /\ OwnTrial(t, 2).args = AfterHead(text)
               ELSE Cardinality(OwnTrials(t)) = 1

OneToken == args # <<>> /\ \A k \in 1..Len(args) : args[k] # " "

\* C7: a #[lazy] Option<T> parameter first binds None and, if the following
\* parameters succeed on the unchanged text, the parse returns with it even
\* where consuming a token would succeed too; a token is consumed only after
\* that has failed.  One token against (#[lazy] Option<String>,
\* Option<String>) gives (None, Some), against two greedy ones (Some, None).
C7_OptionLazySkipsFirst ==
    pc = "done" =>
        /\ \A t \in EntriesOf("LazyOption") : LazyEntryOk(t)
        /\ (OneToken /\ slots = <<OptionLazy("String"), OptionGreedy("String")>>)
               => (parsed.ok /\ parsed.value = <<NoneV, SomeV(StringV(args))>>)
        /\ (OneToken /\ slots = <<OptionGreedy("String"), OptionGreedy("String")>>)
               => (parsed.ok /\ parsed.value = <<SomeV(StringV(args)), NoneV>>)

\* "aA" against (#[lazy] Option<String>, Option<String>)
C7_Witness ==
    /\ pc = "done"
    /\ slots = <<OptionLazy("String"), OptionGreedy("String")>>
    /\ args = <<"a", "A">>
    /\ Cardinality(OwnTrials(1)) = 1
    /\ HeadConverts("String", args) /\ TailOk(1, AfterHead(args))
    /\ parsed.ok
    /\ parsed.value = <<NoneV, SomeV(StringV(<<"a", "A">>))>>

RestEntryOk(t) ==
    LET j == SlotAt(t)
        input == SkipSpaces(Trials[t].args)
        type == slots[j].type
        whole == Append(Trials[t].bound, convert(type, input).token)
    IN (input # <<>> /\ convert(type, input).ok) =>
           /\ type = "String" => convert(type, input).token = StringV(input)
           /\ Cardinality(OwnTrials(t)) = 1
           /\ OwnTrial(t, 1).bound = whole
           /\ OwnTrial(t, 1).args = <<>>
           /\ parsed.ok
           /\ parsed.value = whole

\* C8: a #[rest] T parameter converts the whole text it is given, leading
\* whitespace removed and the rest kept as it is, as one value, leaves no
\* text, and the parse returns with that value.
C8_RestTakesAll ==
    pc = "done" => \A t \in EntriesOf("Rest") : RestEntryOk(t)

\* "8  a " against (String, #[rest] String)
C8_Witness ==
    /\ pc = "done"
    /\ slots = <<Required("String"), Rest("String")>>
    /\ args = <<"8", " ", " ", "a", " ">>
    /\ parsed.ok
    /\ parsed.value = <<StringV(<<"8">>), StringV(<<"a", " ">>)>>

\* the text given to the flag parameter at entry t starts with its literal
FlagHit(t) ==
    /\ SkipSpaces(Trials[t].args) # <<>>
    /\ Folded(TokenOf(SkipSpaces(Trials[t].args))) = Folded(slots[SlotAt(t)].name)

\* only parameters making a single trial come before parameter j
NoChoiceBefore(j) == \A k \in 1..(j - 1) : slots[k].kind \in {"T", "Flag"}

FlagCommits(t) ==
    /\ Cardinality(OwnTrials(t)) = 1
    /\ OwnTrial(t, 1).bound = Append(Trials[t].bound, BoolV(TRUE))
    /\ OwnTrial(t, 1).args = AfterHead(Trials[t].args)

\* C9 as claimed: a flag whose literal is matched consumes the token and binds
\* true, makes no other trial, and when the parameters after it fail the
\* whole parse fails.
C9_FlagMatchFailsParse ==
    pc = "done" =>
        \A t \in EntriesOf("Flag") :
            FlagHit(t) =>
                /\ FlagCommits(t)
                /\ ~TailOk(SlotAt(t), AfterHead(Trials[t].args)) => ~parsed.ok

\* C9 as amended: a flag whose literal is matched consumes the token, binds
\* true and makes no other trial; when the parameters after it fail, the
\* parse fails with the error they leave provided no Option or Vec parameter
\* comes before the flag.  A token equal to the literal against (#[flag],
\* #[rest] String) fails with TooFewArguments.
C9_FlagCommits ==
    pc = "done" =>
        /\ \A t \in EntriesOf("Flag") :
              FlagHit(t) =>
                  /\ FlagCommits(t)
                  /\ (NoChoiceBefore(SlotAt(t))
                        /\ ~TailOk(SlotAt(t), AfterHead(Trials[t].args))) =>
                         /\ ~parsed.ok
                         /\ parsed.error = TailError(SlotAt(t), AfterHead(Trials[t].args),
                                                     OwnTrial(t, 1).error)
        /\ (OneToken /\ Folded(args) = Folded(FlagName)
                /\ slots = <<Flag(FlagName), Rest("String")>>)
               => (~parsed.ok /\ parsed.error = TooFewArguments)

\* "A" against (#[flag] "a", #[rest] String)
C9_Witness ==
    /\ pc = "done"
    /\ slots = <<Flag(FlagName), Rest("String")>>
    /\ args = <<"A">>
    /\ FlagHit(1)
    /\ OwnTrial(1, 1).bound = <<BoolV(TRUE)>>
    /\ ~parsed.ok
    /\ parsed.error = TooFewArguments

FlagSkips(t) ==
    /\ Cardinality(OwnTrials(t)) = 1
    /\ OwnTrial(t, 1).bound = Append(Trials[t].bound, BoolV(FALSE))
    /\ OwnTrial(t, 1).args = Trials[t].args

\* C10: a flag that finds another token than its literal, or no token, binds
\* false and hands the text it was given on unchanged, in its only trial.
C10_FlagMissConsumesNothing ==
    pc = "done" =>
        /\ \A t \in EntriesOf("Flag") : ~FlagHit(t) => FlagSkips(t)
        /\ (OneToken /\ Folded(args) # Folded(FlagName)
                /\ slots = <<Flag(FlagName), Rest("String")>>)
               => (parsed.ok /\ parsed.value = <<BoolV(FALSE), StringV(args)>>)

\* "aa" against (#[flag] "a", #[rest] String)
C10_Witness ==
    /\ pc = "done"
    /\ slots = <<Flag(FlagName), Rest("String")>>
    /\ args = <<"a", "a">>
    /\ ~FlagHit(1)
    /\ parsed.ok
    /\ parsed.value = <<BoolV(FALSE), StringV(<<"a", "a">>)>>

---------------------------------------------------------------------------
(* C11: success needs every parameter bound and no text left *)

\* The expansions entered with every parameter bound
TerminalEntries == {t \in 1..Len(Trials) : Trials[t].slot = Len(slots)}

\* C11: Ok is returned only from an expansion in which every parameter is
\* bound and the text left is empty, with the bindings of that expansion; an
\* expansion that has bound every parameter and is left with text returns
\* nothing: another expansion follows it or the parse fails.
C11_OkOnlyWhenAllBoundAndEmpty ==
    pc = "done" =>
        /\ parsed.ok =>
               /\ Len(Trials) \in TerminalEntries
               /\ Trials[Len(Trials)].args = <<>>
               /\ Trials[Len(Trials)].bound = parsed.value
               /\ Len(parsed.value) = Len(slots)
        /\ \A t \in TerminalEntries :
               /\ Trials[t].args # <<>> => (t < Len(Trials) \/ ~parsed.ok)
               /\ Trials[t].args = <<>> => (t = Len(Trials) /\ parsed.ok)

\* "a a" against (#[lazy] Option<String>, String): (None, "a") leaves "a",
\* then (Some("a"), "a") is returned
C11_Witness ==
    /\ pc = "done"
    /\ slots = <<OptionLazy("String"), Required("String")>>
    /\ args = <<"a", " ", "a">>
    /\ \E t \in TerminalEntries : Trials[t].args = <<"a">> /\ t < Len(Trials)
    /\ parsed.ok
    /\ parsed.value = <<SomeV(StringV(<<"a">>)), StringV(<<"a">>)>>

---------------------------------------------------------------------------
(* C12: the error of a failed parse *)

Events == parsed.events

\* The attempts that took nothing: no token, a token that does not convert,
\* a flag that does not find its literal
Failures == {k \in 1..Len(Events) : ~Events[k].ok}

LastFailure == Events[CHOOSE k \in Failures : \A j \in Failures : j <= k]

\* The error a failed attempt stands for
ErrorOf(ev) ==
    IF ev.kind = "flag" THEN FlagError(slots[ev.slot].name)
    ELSE IF ev.token.some THEN ConversionError(ev.type, ev.token.v)
    ELSE TooFewArguments

\* C12 as claimed: a failed parse returns the error of the failure reached
\* last, with the token as literal when there was a token and none when the
\* text had run out, and TooManyArguments only when nothing failed.
C12_LastErrorWithLiteral ==
    (pc = "done" /\ ~parsed.ok) =>
        IF Failures = {} THEN parsed.error = TooManyArguments
        ELSE /\ parsed.error = ErrorOf(LastFailure)
             /\ parsed.error.literal = LastFailure.token

\* C12: a failed parse returns the error of the failure reached last, and
\* TooManyArguments only when nothing failed.  The literal is the token that
\* did not convert; it is none when the text had run out and in the error of
\* a flag that did not find its literal, whether or not there was a token.
C12_LastError ==
    (pc = "done" /\ ~parsed.ok) =>
        IF Failures = {} THEN parsed.error = TooManyArguments
        ELSE /\ parsed.error = ErrorOf(LastFailure)
             /\ parsed.error # TooManyArguments
             /\ LastFailure.kind # "flag" => parsed.error.literal = LastFailure.token
             /\ LastFailure.kind = "flag" => parsed.error.literal = NoneVal

\* "8" against (#[flag] "a"): the flag reads 8, binds false, and 8 is left
C12_Witness ==
    /\ pc = "done"
    /\ slots = <<Flag(FlagName)>>
    /\ args = <<"8">>
    /\ ~parsed.ok
    /\ LastFailure.kind = "flag"
    /\ LastFailure.token = SomeText(<<"8">>)
    /\ parsed.error = FlagError(FlagName)
    /\ parsed.error.literal = NoneVal

---------------------------------------------------------------------------
(* C13: how often a token is converted *)

\* The attempts in which the converter ran: there was a token
Conversions == {k \in 1..Len(Events) : Events[k].token.some}

\* Two attempts hand the same part of the argument text to the converter of
\* the same type: the texts they read from are suffixes of the argument text
SameConversion(j, k) ==
    /\ Events[j].type = Events[k].type
    /\ Events[j].token = Events[k].token
    /\ Len(trim_start(Events[j].from)) = Len(trim_start(Events[k].from))

\* C13 as claimed: within one parse no part of the text is converted to the
\* same type twice.
C13_ConvertedAtMostOnce ==
    pc = "done" =>
        \A j, k \in Conversions : SameConversion(j, k) => j = k

\* C13: within one expansion of a parameter no part of the text is converted
\* to the same type twice: a Vec<T> converts each token once for all the
\* lengths it tries, an Option<T> once for both of its branches.  (Another
\* expansion, reached by backtracking, converts it again.)
C13_ConvertedOncePerExpansion ==
    pc = "done" =>
        \A j, k \in Conversions :
            (SameConversion(j, k) /\ Events[j].entry = Events[k].entry) => j = k

\* "a a" against (Vec<String>, String): the Vec converts both tokens once and
\* tries two lengths; the String that follows converts the second a again
C13_Witness ==
    /\ pc = "done"
    /\ slots = <<Repeated("String"), Required("String")>>
    /\ args = <<"a", " ", "a">>
    /\ Cardinality({k \in Conversions : Events[k].slot = 1}) = 2
    /\ Cardinality(OwnTrials(1)) = 2
    /\ \E j, k \in Conversions :
          /\ SameConversion(j, k)
          /\ Events[j].slot = 1
          /\ Events[k].slot = 2
    /\ parsed.ok

---------------------------------------------------------------------------
(* C14: the error of a flag that did not find its literal *)

\* The attempts of flags that read another token than their literal
FlagMisses == {k \in Failures : Events[k].kind = "flag" /\ Events[k].token.some}

FailuresAfter(k) == {j \in Failures : j > k}

\* C14 as claimed: when a flag read another token than its literal and the
\* parse fails, the error returned is that flag's error.
C14_FlagErrorReturned ==
    (pc = "done" /\ ~parsed.ok) =>
        \A k \in FlagMisses : parsed.error = FlagError(slots[Events[k].slot].name)

\* C14: when a flag read another token than its literal and the parse fails,
\* the error returned is that flag's error if no attempt failed after the
\* flag's; otherwise it is the error of the last attempt that failed, which
\* is another error unless that attempt is again a flag's.
C14_FlagErrorUnlessLaterFailure ==
    (pc = "done" /\ ~parsed.ok) =>
        \A k \in FlagMisses :
            IF FailuresAfter(k) = {}
            THEN parsed.error = FlagError(slots[Events[k].slot].name)
            ELSE /\ parsed.error = ErrorOf(LastFailure)
                 /\ LastFailure.kind # "flag" => parsed.error.kind # "MustUseFlagOrNothing"

\* "8 8" against (#[flag] "a", String): the String takes the first 8, the
\* second is left, and the flag's error is returned
C14_Witness ==
    /\ pc = "done"
    /\ slots = <<Flag(FlagName), Required("String")>>
    /\ args = <<"8", " ", "8">>
    /\ 1 \in FlagMisses
    /\ FailuresAfter(1) = {}
    /\ ~parsed.ok
    /\ parsed.error = FlagError(FlagName)

---------------------------------------------------------------------------
(* C15: #[rest] Option<T> *)

\* C15 as claimed: a #[rest] Option<T> given text that is empty once its
\* leading whitespace is removed binds None and the parse succeeds; given
\* other text it converts all of it without the leading whitespace, binds
\* Some of the value and leaves no text.
C15_RestOptionNoneOnBlank ==
    pc = "done" =>
        \A t \in EntriesOf("RestOption") :
            IF trim_start(Trials[t].args) = <<>>
            THEN /\ Cardinality(OwnTrials(t)) = 1
                 /\ OwnTrial(t, 1).bound = Append(Trials[t].bound, NoneV)
                 /\ parsed.ok
            ELSE convert(slots[SlotAt(t)].type, trim_start(Trials[t].args)).ok =>
                     /\ Cardinality(OwnTrials(t)) = 1
                     /\ OwnTrial(t, 1).args = <<>>
                     /\ OwnTrial(t, 1).bound =
                            Append(Trials[t].bound,
                                   SomeV(convert(slots[SlotAt(t)].type,
                                                 trim_start(Trials[t].args)).token))

---------------------------------------------------------------------------
(* C16: the mention as prefix *)

\* <@ID> and <@!ID> for the bot's own id
MentionForms ==
    { <<"<", "@">> \o to_string(options.current_user_id) \o <<">">>,
      <<"<", "@", "!">> \o to_string(options.current_user_id) \o <<">">> }

NoEarlierStrategy ==
    \A k \in 1..(StrategyCount - 1) : ~StrategyOutcome(k).some

\* C16 as claimed: with mention_as_prefix set and no earlier strategy
\* matching, strip_prefix matches exactly when the content begins with <@ID>
\* or <@!ID>; the prefix is that mention and the rest is the text after it.
C16_MentionExact ==
    (pc = "done" /\ options.mention_as_prefix /\ NoEarlierStrategy) =>
        /\ stripped.some <=> \E m \in MentionForms : starts_with(content, m)
        /\ stripped.some =>
              /\ stripped.prefix \in MentionForms
              /\ content = stripped.prefix \o stripped.rest

---------------------------------------------------------------------------
(* Claims about dispatch_message *)

NoPrefixMatches == \A k \in 1..StrategyCount : ~StrategyOutcome(k).some

\* the first token of the text after the prefix
LeadingToken == TokenOf(SkipSpaces(stripped.rest))

NoCommandNamed ==
    FirstNamed(commands, LeadingToken, options.case_insensitive_commands) = 0

\* C17: when no prefix matches, or one matches and the token after it is no
\* name or alias of a command, no user code is invoked at any point (no
\* permission check, pre_command, action or post_command) and Err(None) is
\* what dispatch_message returns.
C17_UnknownIsErrNone ==
    (NoPrefixMatches \/ (pc # "strip_prefix" /\ stripped.some /\ NoCommandNamed)) =>
        /\ calls = <<>>
        /\ pc = "done" => result = ErrNone

\* "!pp" sent by another user, not as an edit: the prefix matches, pp names
\* no command
C17_Witness ==
    /\ pc = "done"
    /\ content = <<"!", "p", "p">>
    /\ message.author.id = OtherUserId
    /\ ~triggered_by_edit
    /\ stripped.some
    /\ NoCommandNamed
    /\ commands[1].prefix_action
    /\ calls = <<>>
    /\ result = ErrNone

\* The gates of dispatch_message, each stated on the inputs of the call
PrefixMatched == ~NoPrefixMatches

AuthorAllowed ==
    message.author.id # options.current_user_id \/ options.execute_self_messages

Matched ==
    find_command(commands, SkipSpaces(stripped.rest), options.case_insensitive_commands)

MatchedCommand == command_at(commands, Matched.command)

EditAllowed ==
    \/ ~triggered_by_edit
    \/ MatchedCommand.invoke_on_edit
    \/ (~previously_tracked /\ options.execute_untracked_edits)

GatesPassed ==
    /\ PrefixMatched
    /\ AuthorAllowed
    /\ Matched.some
    /\ MatchedCommand.prefix_action
    /\ EditAllowed

CallsOf(call) == {k \in 1..Len(calls) : calls[k].call = call}

C19_WitnessCheckFails ==
    /\ pc = "done"
    /\ content = <<"!", "p">>
    /\ GatesPassed
    /\ ~calls[1].outcome.ok
    /\ result = ErrSome("CheckFailed", <<1>>)

\* The user code a dispatch invokes, in the order of the code
CallOrder == <<"check_permissions_and_cooldown", "pre_command", "action", "post_command">>

\* How many of them have been invoked when the dispatch is at pc
CallsMadeAt ==
    [p \in {"pre_command", "action", "post_command", "done"} |->
        CASE p = "pre_command" -> 1
          [] p = "action" -> 2
          [] p = "post_command" -> 3
          [] p = "done" -> 4]

\* C20: once the permission check has succeeded, pre_command, the action and
\* post_command are invoked in that order, once each, for the command
\* find_command returned; the action is given the argument text find_command
\* returned; post_command is invoked whether the action answered Ok or Err;
\* and dispatch_message returns Ok(()) when the action answered Ok and
\* otherwise Err(Some(the action's error, the command)).
C20_HooksAroundAction ==
    (calls # <<>> /\ calls[1].outcome.ok) =>
        /\ Len(calls) = CallsMadeAt[pc]
        /\ \A k \in 1..Len(calls) :
              /\ calls[k].call = CallOrder[k]
              /\ calls[k].command = Matched.command
        /\ Len(calls) >= 3 => calls[3].args = Matched.args
        /\ pc = "done" =>
              result = IF calls[3].outcome.ok THEN Ok
                       ELSE ErrSome(calls[3].outcome.error, Matched.command)

\* "!p pc" sent by another user: p is run with the text pc, answers Err, and
\* post_command is invoked all the same
C20_Witness ==
    /\ pc = "done"
    /\ content = <<"!", "p", " ", "p", "c">>
    /\ Len(calls) = 4
    /\ calls[3].call = "action"
    /\ calls[3].command = <<1>>
    /\ calls[3].args = <<"p", "c">>
    /\ ~calls[3].outcome.ok
    /\ calls[4].call = "post_command"
    /\ result = ErrSome("CommandError", <<1>>)

---------------------------------------------------------------------------
(* C21: the pair returned by strip_prefix splits the content *)

\* The strategy whose match is returned: the first that matches
Winner ==
    CHOOSE k \in 1..StrategyCount :
        /\ StrategyOutcome(k).some
        /\ \A j \in 1..(k - 1) : ~StrategyOutcome(j).some

StrippedDynamicStrategy == 3 + Len(options.additional_prefixes)

\* C21: when the match returned comes from the dynamic prefix, the fixed
\* prefix, an additional prefix (literal or pattern) or the mention, the
\* prefix returned is a prefix of the content and the prefix followed by the
\* rest returned is the content.
C21_PairSplitsContent ==
    (pc = "done" /\ stripped.some /\ Winner # StrippedDynamicStrategy) =>
        /\ starts_with(content, stripped.prefix)
        /\ stripped.prefix \o stripped.rest = content

\* "!!<@1" with the pattern !+ as the first additional prefix that matches:
\* the pair is ("!!", "<@1")
C21_Witness ==
    /\ pc = "done"
    /\ content = <<"!", "!", "<", "@", "1">>
    /\ options.additional_prefixes = <<Literal(<<"<", "@">>), Regex("!")>>
    /\ Winner = 4
    /\ stripped = SomePair(<<"!", "!">>, <<"<", "@", "1">>)

====
